---- MODULE Spec2Model ----
(***************************************************************************)
(* The unanimous-closing state machine of the validator                    *)
(* (validator/unanimous.go): the four closing states, their UpdateTime and *)
(* UpdateState handlers, the result channel retChan and the calls into the *)
(* validator core.                                                         *)
(***************************************************************************)
EXTENDS Integers, Sequences, FiniteSets, TLC

\* ---------------------------------------------------------------- bounds
MaxTime == 1
MaxTop == 0
MaxGrace == 1
MaxSeq == 1
MaxAssertion == 1
MaxCap == 1
MaxInbox == 1

\* ------------------------------------------------- uint64 (time, deadline)
\* A uint64 is four 16-bit limbs, most significant first.
Limb == 2^16

U64(n) == <<0, 0, 0, n>>

U64Top(j) == <<Limb - 1, Limb - 1, Limb - 1, Limb - 1 - j>>

\* time + bot.config.GracePeriod in uint64: the carry out of the top limb is lost.
Add64(a, b) ==
    LET s4 == a[4] + b[4]
        s3 == a[3] + b[3] + (s4 \div Limb)
        s2 == a[2] + b[2] + (s3 \div Limb)
        s1 == a[1] + b[1] + (s2 \div Limb)
    IN  <<s1 % Limb, s2 % Limb, s3 % Limb, s4 % Limb>>

\* whether a + b leaves the uint64 range (the carry Add64 loses)
Carry64(a, b) ==
    LET s4 == a[4] + b[4]
        s3 == a[3] + b[3] + (s4 \div Limb)
        s2 == a[2] + b[2] + (s3 \div Limb)
        s1 == a[1] + b[1] + (s2 \div Limb)
    IN  s1 >= Limb

\* time > bot.deadline on uint64
Gt64(a, b) ==
    \/ a[1] > b[1]
    \/ a[1] = b[1] /\ a[2] > b[2]
    \/ a[1] = b[1] /\ a[2] = b[2] /\ a[3] > b[3]
    \/ a[1] = b[1] /\ a[2] = b[2] /\ a[3] = b[3] /\ a[4] > b[4]

Times == {U64(i) : i \in 0..MaxTime} \cup {U64Top(j) : j \in 0..MaxTop}

GracePeriods == {U64(i) : i \in 0..MaxGrace}

SeqNums == 0..MaxSeq

Assertions == 0..MaxAssertion

\* ------------------------------------------------------------- vocabulary
\* chan<- bool: nil or a channel supplied by the caller of the round
NilChan == "nil"

Chan == "ch"

NoError == "nil"

SupersededError == "unanimous assertion unexpectedly superseded"

SupersededByFinalError == "unanimous assertion unexpectedly superseded by final assert"

SupersededBySeqError == "unanimous assertion unexpectedly superseded by sequence number"

DesyncError == "ERROR: waitingAssertDefender: VM state got unsynchronized"

\* ethbridge.Event: the four types the handlers switch on, and any other type
Events ==
    [type : {"ProposedUnanimousAssertEvent"}, SequenceNum : SeqNums]
    \cup [type : {"DisputableAssertionEvent", "FinalUnanimousAssertEvent",
                  "ConfirmedUnanimousAssertEvent", "OtherEvent"}]

ClosingKinds == {"attemptingUnanimousClosing", "attemptingOffchainClosing",
                 "waitingOffchainClosing", "finalizingOffchainClosing"}

\* a nil validatorState
NilState == [kind |-> "nil"]

\* the successor state returned on success
NewWaitingObserver == [kind |-> "waitingObserver"]

\* ------------------------------------------------------ validator core
\* inbox: number of pending messages; delivered: calls of DeliverMessagesToVM
DeliverMessagesToVM(c) == [inbox |-> 0, delivered |-> c.delivered + 1]

InboxHash(c) == <<"hash", c.inbox>>

SendConfirmUnanimousAssertedMessage(hash, assertion) ==
    [type |-> "SendConfirmUnanimousAssertedMessage",
     NewInboxHash |-> hash, Assertion |-> assertion]

\* ------------------------------------------------------------- handlers
\* What a handler does: the side effects in program order, then the values
\* it returns.
Return(state, msgs, err, effects) ==
    [state |-> state, challenge |-> "nil", msgs |-> msgs, err |-> err,
     effects |-> effects]

\* if bot.retChan != nil { bot.retChan <- v }
SendIfPresent(retChan, v) ==
    IF retChan # NilChan THEN <<[op |-> "send", val |-> v]>> ELSE <<>>

Deliver == <<[op |-> "deliver"]>>

attemptingUnanimousClosing_UpdateTime(bot, time) ==
    Return(bot, <<>>, NoError, <<>>)

\* attemptingUnanimousClosing.UpdateState reporting false on the final event
attemptingUnanimousClosing_UpdateState_SendsFalse(bot, ev, time) ==
    CASE ev.type = "ProposedUnanimousAssertEvent" ->
            Return(bot, <<>>, NoError, <<>>)
      [] ev.type = "DisputableAssertionEvent" ->
            Return(bot, <<>>, NoError, <<>>)
      [] ev.type = "FinalUnanimousAssertEvent" ->
            Return(NewWaitingObserver, <<>>, NoError,
                   SendIfPresent(bot.retChan, FALSE) \o Deliver)
      [] OTHER ->
            Return(NilState, <<>>, DesyncError, <<>>)

attemptingUnanimousClosing_UpdateState(bot, ev, time) ==
    CASE ev.type = "ProposedUnanimousAssertEvent" ->
            Return(bot, <<>>, NoError, <<>>)
      [] ev.type = "DisputableAssertionEvent" ->
            Return(bot, <<>>, NoError, <<>>)
      [] ev.type = "FinalUnanimousAssertEvent" ->
            Return(NewWaitingObserver, <<>>, NoError,
                   SendIfPresent(bot.retChan, TRUE) \o Deliver)
      [] OTHER ->
            Return(NilState, <<>>, DesyncError, <<>>)

attemptingOffchainClosing_UpdateTime(bot, time) ==
    Return(bot, <<>>, NoError, <<>>)

\* attemptingOffchainClosing.UpdateState with the two comparisons of the
\* sequence numbers exchanged
attemptingOffchainClosing_UpdateState_Reversed(bot, ev, time, cfg) ==
    CASE ev.type = "ProposedUnanimousAssertEvent" ->
            IF ev.SequenceNum > bot.sequenceNum
            THEN Return(bot, <<>>, NoError, <<>>)
            ELSE IF ev.SequenceNum < bot.sequenceNum
            THEN Return(NilState, <<>>, SupersededError,
                        SendIfPresent(bot.retChan, FALSE))
            ELSE Return([kind |-> "waitingOffchainClosing",
                         assertion |-> bot.assertion,
                         deadline |-> Add64(time, cfg.GracePeriod),
                         retChan |-> bot.retChan],
                        <<>>, NoError, <<>>)
      [] ev.type = "DisputableAssertionEvent" ->
            Return(bot, <<>>, NoError, <<>>)
      [] ev.type = "FinalUnanimousAssertEvent" ->
            Return(NilState, <<>>, SupersededByFinalError,
                   SendIfPresent(bot.retChan, FALSE))
      [] OTHER ->
            Return(NilState, <<>>, DesyncError,
                   SendIfPresent(bot.retChan, FALSE))

\* attemptingOffchainClosing.UpdateState storing time as the deadline, without
\* the grace period
attemptingOffchainClosing_UpdateState_NoGrace(bot, ev, time, cfg) ==
    CASE ev.type = "ProposedUnanimousAssertEvent" ->
            IF ev.SequenceNum < bot.sequenceNum
            THEN Return(bot, <<>>, NoError, <<>>)
            ELSE IF ev.SequenceNum > bot.sequenceNum
            THEN Return(NilState, <<>>, SupersededError,
                        SendIfPresent(bot.retChan, FALSE))
            ELSE Return([kind |-> "waitingOffchainClosing",
                         assertion |-> bot.assertion,
                         deadline |-> time,
                         retChan |-> bot.retChan],
                        <<>>, NoError, <<>>)
      [] ev.type = "DisputableAssertionEvent" ->
            Return(bot, <<>>, NoError, <<>>)
      [] ev.type = "FinalUnanimousAssertEvent" ->
            Return(NilState, <<>>, SupersededByFinalError,
                   SendIfPresent(bot.retChan, FALSE))
      [] OTHER ->
            Return(NilState, <<>>, DesyncError,
                   SendIfPresent(bot.retChan, FALSE))

\* attemptingOffchainClosing.UpdateState returning finalizingOffchainClosing
\* when the sequence numbers are equal
attemptingOffchainClosing_UpdateState_SkipsWaiting(bot, ev, time, cfg) ==
    CASE ev.type = "ProposedUnanimousAssertEvent" ->
            IF ev.SequenceNum < bot.sequenceNum
            THEN Return(bot, <<>>, NoError, <<>>)
            ELSE IF ev.SequenceNum > bot.sequenceNum
            THEN Return(NilState, <<>>, SupersededError,
                        SendIfPresent(bot.retChan, FALSE))
            ELSE Return([kind |-> "finalizingOffchainClosing",
                         retChan |-> bot.retChan],
                        <<>>, NoError, <<>>)
      [] ev.type = "DisputableAssertionEvent" ->
            Return(bot, <<>>, NoError, <<>>)
      [] ev.type = "FinalUnanimousAssertEvent" ->
            Return(NilState, <<>>, SupersededByFinalError,
                   SendIfPresent(bot.retChan, FALSE))
      [] OTHER ->
            Return(NilState, <<>>, DesyncError,
                   SendIfPresent(bot.retChan, FALSE))

\* attemptingOffchainClosing.UpdateState with the superseded branch reporting
\* false and then staying in the state instead of ending the round
attemptingOffchainClosing_UpdateState_KeepsGoing(bot, ev, time, cfg) ==
    CASE ev.type = "ProposedUnanimousAssertEvent" ->
            IF ev.SequenceNum < bot.sequenceNum
            THEN Return(bot, <<>>, NoError, <<>>)
            ELSE IF ev.SequenceNum > bot.sequenceNum
            THEN Return(bot, <<>>, NoError,
                        SendIfPresent(bot.retChan, FALSE))
            ELSE Return([kind |-> "waitingOffchainClosing",
                         assertion |-> bot.assertion,
                         deadline |-> Add64(time, cfg.GracePeriod),
                         retChan |-> bot.retChan],
                        <<>>, NoError, <<>>)
      [] ev.type = "DisputableAssertionEvent" ->
            Return(bot, <<>>, NoError, <<>>)
      [] ev.type = "FinalUnanimousAssertEvent" ->
            Return(NilState, <<>>, SupersededByFinalError,
                   SendIfPresent(bot.retChan, FALSE))
      [] OTHER ->
            Return(NilState, <<>>, DesyncError,
                   SendIfPresent(bot.retChan, FALSE))

attemptingOffchainClosing_UpdateState(bot, ev, time, cfg) ==
    CASE ev.type = "ProposedUnanimousAssertEvent" ->
            IF ev.SequenceNum < bot.sequenceNum
            THEN Return(bot, <<>>, NoError, <<>>)
            ELSE IF ev.SequenceNum > bot.sequenceNum
            THEN Return(NilState, <<>>, SupersededError,
                        SendIfPresent(bot.retChan, FALSE))
            ELSE Return([kind |-> "waitingOffchainClosing",
                         assertion |-> bot.assertion,
                         deadline |-> Add64(time, cfg.GracePeriod),
                         retChan |-> bot.retChan],
                        <<>>, NoError, <<>>)
      [] ev.type = "DisputableAssertionEvent" ->
            Return(bot, <<>>, NoError, <<>>)
      [] ev.type = "FinalUnanimousAssertEvent" ->
            Return(NilState, <<>>, SupersededByFinalError,
                   SendIfPresent(bot.retChan, FALSE))
      [] OTHER ->
            Return(NilState, <<>>, DesyncError,
                   SendIfPresent(bot.retChan, FALSE))

\* waitingOffchainClosing.UpdateTime with the comparison turned round
\* (bot.deadline > time)
waitingOffchainClosing_UpdateTime_Turned(bot, time, c) ==
    IF Gt64(bot.deadline, time)
    THEN Return([kind |-> "finalizingOffchainClosing", retChan |-> bot.retChan],
                <<SendConfirmUnanimousAssertedMessage(InboxHash(c), bot.assertion)>>,
                NoError, <<>>)
    ELSE Return(bot, <<>>, NoError, <<>>)

\* waitingOffchainClosing.UpdateTime with time >= bot.deadline
waitingOffchainClosing_UpdateTime_AtDeadline(bot, time, c) ==
    IF Gt64(time, bot.deadline) \/ time = bot.deadline
    THEN Return([kind |-> "finalizingOffchainClosing", retChan |-> bot.retChan],
                <<SendConfirmUnanimousAssertedMessage(InboxHash(c), bot.assertion)>>,
                NoError, <<>>)
    ELSE Return(bot, <<>>, NoError, <<>>)

\* waitingOffchainClosing.UpdateTime returning bot with the message
waitingOffchainClosing_UpdateTime_Stays(bot, time, c) ==
    IF Gt64(time, bot.deadline)
    THEN Return(bot,
                <<SendConfirmUnanimousAssertedMessage(InboxHash(c), bot.assertion)>>,
                NoError, <<>>)
    ELSE Return(bot, <<>>, NoError, <<>>)

waitingOffchainClosing_UpdateTime(bot, time, c) ==
    IF Gt64(time, bot.deadline)
    THEN Return([kind |-> "finalizingOffchainClosing", retChan |-> bot.retChan],
                <<SendConfirmUnanimousAssertedMessage(InboxHash(c), bot.assertion)>>,
                NoError, <<>>)
    ELSE Return(bot, <<>>, NoError, <<>>)

\* waitingOffchainClosing.UpdateState ignoring DisputableAssertionEvent, as
\* the two states before it do
waitingOffchainClosing_UpdateState_ToleratesDisputable(bot, ev, time) ==
    CASE ev.type = "ProposedUnanimousAssertEvent" ->
            Return(NilState, <<>>, SupersededBySeqError,
                   SendIfPresent(bot.retChan, FALSE))
      [] ev.type = "DisputableAssertionEvent" ->
            Return(bot, <<>>, NoError, <<>>)
      [] ev.type = "FinalUnanimousAssertEvent" ->
            Return(NilState, <<>>, SupersededByFinalError,
                   SendIfPresent(bot.retChan, FALSE))
      [] OTHER ->
            Return(NilState, <<>>, DesyncError,
                   SendIfPresent(bot.retChan, FALSE))

\* waitingOffchainClosing.UpdateState with a default branch that ends the
\* round without reporting on retChan
waitingOffchainClosing_UpdateState_SilentDesync(bot, ev, time) ==
    CASE ev.type = "ProposedUnanimousAssertEvent" ->
            Return(NilState, <<>>, SupersededBySeqError,
                   SendIfPresent(bot.retChan, FALSE))
      [] ev.type = "FinalUnanimousAssertEvent" ->
            Return(NilState, <<>>, SupersededByFinalError,
                   SendIfPresent(bot.retChan, FALSE))
      [] OTHER ->
            Return(NilState, <<>>, DesyncError, <<>>)

waitingOffchainClosing_UpdateState(bot, ev, time) ==
    CASE ev.type = "ProposedUnanimousAssertEvent" ->
            Return(NilState, <<>>, SupersededBySeqError,
                   SendIfPresent(bot.retChan, FALSE))
      [] ev.type = "FinalUnanimousAssertEvent" ->
            Return(NilState, <<>>, SupersededByFinalError,
                   SendIfPresent(bot.retChan, FALSE))
      [] OTHER ->
            Return(NilState, <<>>, DesyncError,
                   SendIfPresent(bot.retChan, FALSE))

finalizingOffchainClosing_UpdateTime(bot, time) ==
    Return(bot, <<>>, NoError, <<>>)

\* finalizingOffchainClosing.UpdateState sending true before it calls
\* DeliverMessagesToVM, in the order of attemptingUnanimousClosing
finalizingOffchainClosing_UpdateState_SendFirst(bot, ev, time) ==
    CASE ev.type = "ConfirmedUnanimousAssertEvent" ->
            Return(NewWaitingObserver, <<>>, NoError,
                   SendIfPresent(bot.retChan, TRUE) \o Deliver)
      [] OTHER ->
            Return(NilState, <<>>, DesyncError, <<>>)

\* finalizingOffchainClosing.UpdateState without the call of DeliverMessagesToVM
finalizingOffchainClosing_UpdateState_NoDeliver(bot, ev, time) ==
    CASE ev.type = "ConfirmedUnanimousAssertEvent" ->
            Return(NewWaitingObserver, <<>>, NoError,
                   SendIfPresent(bot.retChan, TRUE))
      [] OTHER ->
            Return(NilState, <<>>, DesyncError, <<>>)

\* finalizingOffchainClosing.UpdateState with DeliverMessagesToVM moved inside
\* the if bot.retChan != nil block
finalizingOffchainClosing_UpdateState_DeliverIfChan(bot, ev, time) ==
    CASE ev.type = "ConfirmedUnanimousAssertEvent" ->
            Return(NewWaitingObserver, <<>>, NoError,
                   IF bot.retChan # NilChan
                   THEN Deliver \o SendIfPresent(bot.retChan, TRUE)
                   ELSE <<>>)
      [] OTHER ->
            Return(NilState, <<>>, DesyncError, <<>>)

\* finalizingOffchainClosing.UpdateState returning nil, nil from the default
\* branch
finalizingOffchainClosing_UpdateState_NilNoError(bot, ev, time) ==
    CASE ev.type = "ConfirmedUnanimousAssertEvent" ->
            Return(NewWaitingObserver, <<>>, NoError,
                   Deliver \o SendIfPresent(bot.retChan, TRUE))
      [] OTHER ->
            Return(NilState, <<>>, NoError, <<>>)

\* finalizingOffchainClosing.UpdateState reporting false from the default
\* branch, as the two states before it do
finalizingOffchainClosing_UpdateState_DesyncSends(bot, ev, time) ==
    CASE ev.type = "ConfirmedUnanimousAssertEvent" ->
            Return(NewWaitingObserver, <<>>, NoError,
                   Deliver \o SendIfPresent(bot.retChan, TRUE))
      [] OTHER ->
            Return(NilState, <<>>, DesyncError,
                   SendIfPresent(bot.retChan, FALSE))

finalizingOffchainClosing_UpdateState(bot, ev, time) ==
    CASE ev.type = "ConfirmedUnanimousAssertEvent" ->
            Return(NewWaitingObserver, <<>>, NoError,
                   Deliver \o SendIfPresent(bot.retChan, TRUE))
      [] OTHER ->
            Return(NilState, <<>>, DesyncError, <<>>)

\* validatorState.UpdateTime / UpdateState: dispatch on the dynamic type
UpdateTime(bot, time, c) ==
    CASE bot.kind = "attemptingUnanimousClosing" ->
            attemptingUnanimousClosing_UpdateTime(bot, time)
      [] bot.kind = "attemptingOffchainClosing" ->
            attemptingOffchainClosing_UpdateTime(bot, time)
      [] bot.kind = "waitingOffchainClosing" ->
            waitingOffchainClosing_UpdateTime(bot, time, c)
      [] bot.kind = "finalizingOffchainClosing" ->
            finalizingOffchainClosing_UpdateTime(bot, time)

UpdateState(bot, ev, time, cfg) ==
    CASE bot.kind = "attemptingUnanimousClosing" ->
            attemptingUnanimousClosing_UpdateState(bot, ev, time)
      [] bot.kind = "attemptingOffchainClosing" ->
            attemptingOffchainClosing_UpdateState(bot, ev, time, cfg)
      [] bot.kind = "waitingOffchainClosing" ->
            waitingOffchainClosing_UpdateState(bot, ev, time)
      [] bot.kind = "finalizingOffchainClosing" ->
            finalizingOffchainClosing_UpdateState(bot, ev, time)

\* ------------------------------------------------------------------ state
VARIABLES
    bot,        \* the driver's current validatorState
    config,     \* validatorConfig: [GracePeriod]
    core,       \* validatorCore: [inbox, delivered]
    start,      \* the state the round was constructed in
    pc,         \* "idle": no call in progress; "blocked": a call waits in a send
    pending,    \* the blocked call: what it will return, the effects left
    call,       \* the last call made: [op, ev, time, bot (the receiver)]
    ret,        \* what the last call returned: [state, challenge, msgs, err]
    chanCap,    \* cap(retChan)
    chanBuf,    \* the values buffered in retChan
    listening,  \* a foreign task is parked in a receive from retChan
    received,   \* the values the foreign task has received
    sent,       \* the values whose send on retChan completed, in order
    log,        \* the side effects of the round, in order
    outbox,     \* the outgoing messages returned to the driver, in order
    twin,       \* the same round run with a nil retChan on the same inputs
    happy       \* how far the calls so far follow the happy path

vars == <<bot, config, core, start, pc, pending, call, ret, chanCap, chanBuf,
          listening, received, sent, log, outbox, twin, happy>>

NoCall == [op |-> "none"]

NoRet == [state |-> "none"]

NoPending == [rest |-> <<>>]

\* The states a round is constructed in (the struct literals of the callers).
StartStates ==
    [kind : {"attemptingUnanimousClosing"}, assertion : Assertions,
     retChan : {NilChan, Chan}]
    \cup [kind : {"attemptingOffchainClosing"}, sequenceNum : SeqNums,
          assertion : Assertions, retChan : {NilChan, Chan}]

WithNilChan(b) ==
    IF "retChan" \in DOMAIN b THEN [b EXCEPT !.retChan = NilChan] ELSE b

\* History variable of the happy path (C5): n counts the calls made so far
\* when they are, in order, ProposedUnanimousAssert with the round's sequence
\* number at t0, a tick greater than t0 + GracePeriod (the sum taken without
\* wrap-around), ConfirmedUnanimousAssert; n = -1 once the calls leave it.
HappyStep(h, c) ==
    CASE h.n = 0 /\ c.bot.kind = "attemptingOffchainClosing"
                 /\ c.op = "UpdateState"
                 /\ c.ev.type = "ProposedUnanimousAssertEvent"
                 /\ c.ev.SequenceNum = c.bot.sequenceNum ->
            [n |-> 1, t0 |-> c.time]
      [] h.n = 1 /\ c.op = "UpdateTime" ->
            IF /\ ~Carry64(h.t0, config.GracePeriod)
               /\ Gt64(c.time, Add64(h.t0, config.GracePeriod))
            THEN [n |-> 2, t0 |-> h.t0]
            ELSE [n |-> -1]
      [] h.n = 2 /\ c.op = "UpdateState"
                 /\ c.ev.type = "ConfirmedUnanimousAssertEvent" ->
            [n |-> 3, t0 |-> h.t0]
      [] OTHER -> [n |-> -1]

Init ==
    /\ bot \in StartStates
    /\ start = bot
    /\ config \in [GracePeriod : GracePeriods]
    /\ core \in [inbox : 0..MaxInbox, delivered : {0}]
    /\ pc = "idle"
    /\ pending = NoPending
    /\ call = NoCall
    /\ ret = NoRet
    /\ chanCap \in (IF bot.retChan = NilChan THEN {0} ELSE 0..MaxCap)
    /\ chanBuf = <<>>
    /\ listening \in (IF bot.retChan = NilChan THEN {FALSE} ELSE BOOLEAN)
    /\ received = <<>>
    /\ sent = <<>>
    /\ log = <<>>
    /\ outbox = <<>>
    /\ twin = [bot |-> WithNilChan(bot), ret |-> NoRet, core |-> core]
    /\ happy = [n |-> 0]

\* ---------------------------------------------------------- side effects
\* The part of the state a handler's side effects act on.
World == [core |-> core, buf |-> chanBuf, listening |-> listening,
          received |-> received, sent |-> sent, log |-> log]

\* bot.retChan <- v proceeds when a receiver is parked or the buffer has room
CanSend(w) == w.listening \/ Len(w.buf) < chanCap

DoSend(w, e) ==
    IF w.listening
    THEN [w EXCEPT !.received = Append(@, e.val), !.listening = FALSE,
                   !.sent = Append(@, e.val), !.log = Append(@, e)]
    ELSE [w EXCEPT !.buf = Append(@, e.val),
                   !.sent = Append(@, e.val), !.log = Append(@, e)]

DoDeliver(w, e) ==
    [w EXCEPT !.core = DeliverMessagesToVM(@), !.log = Append(@, e)]

\* Runs the effects in order until they are done or a send blocks.
RECURSIVE Exec(_, _)
Exec(effs, w) ==
    IF effs = <<>> THEN [w |-> w, rest |-> <<>>]
    ELSE LET e == Head(effs) IN
         IF e.op = "deliver" THEN Exec(Tail(effs), DoDeliver(w, e))
         ELSE IF CanSend(w) THEN Exec(Tail(effs), DoSend(w, e))
         ELSE [w |-> w, rest |-> effs]

\* the twin's handlers never send: only deliveries act on its core
RECURSIVE TwinCore(_, _)
TwinCore(effs, c) ==
    IF effs = <<>> THEN c
    ELSE TwinCore(Tail(effs),
                  IF Head(effs).op = "deliver" THEN DeliverMessagesToVM(c) ELSE c)

Returned(r) ==
    [state |-> r.state, challenge |-> r.challenge, msgs |-> r.msgs, err |-> r.err]

\* The call runs to its return, or stops in the send that blocks.
Proceed(r, x) ==
    /\ core' = x.w.core
    /\ chanBuf' = x.w.buf
    /\ listening' = x.w.listening
    /\ received' = x.w.received
    /\ sent' = x.w.sent
    /\ log' = x.w.log
    /\ IF x.rest = <<>>
       THEN /\ pc' = "idle"
            /\ pending' = NoPending
            /\ bot' = r.state
            /\ ret' = Returned(r)
            /\ outbox' = outbox \o r.msgs
       ELSE /\ pc' = "blocked"
            /\ pending' = [r |-> r, rest |-> x.rest]
            /\ ret' = NoRet
            /\ UNCHANGED <<bot, outbox>>

Handle(c) ==
    IF c.op = "UpdateTime"
    THEN UpdateTime(c.bot, c.time, core)
    ELSE UpdateState(c.bot, c.ev, c.time, config)

TwinHandle(c) ==
    IF c.op = "UpdateTime"
    THEN UpdateTime(twin.bot, c.time, twin.core)
    ELSE UpdateState(twin.bot, c.ev, c.time, config)

\* The driver makes one call on its current state.
DriverCall(c) ==
    /\ pc = "idle"
    /\ bot.kind \in ClosingKinds
    /\ call' = c
    /\ happy' = HappyStep(happy, c)
    /\ LET r == Handle(c)
           t == TwinHandle(c)
       IN  /\ Proceed(r, Exec(r.effects, World))
           /\ twin' = [bot |-> t.state, ret |-> Returned(t),
                       core |-> TwinCore(t.effects, twin.core)]
    /\ UNCHANGED <<config, start, chanCap>>

UpdateTimeCall ==
    \E time \in Times :
        DriverCall([op |-> "UpdateTime", time |-> time, bot |-> bot])

UpdateStateCall ==
    \E ev \in Events, time \in Times :
        DriverCall([op |-> "UpdateState", ev |-> ev, time |-> time, bot |-> bot])

\* A blocked send goes through and the call runs on to its return.
SendCompletes ==
    /\ pc = "blocked"
    /\ CanSend(World)
    /\ Proceed(pending.r, Exec(pending.rest, World))
    /\ UNCHANGED <<config, start, call, chanCap, twin, happy>>

\* The foreign task receives from retChan: a buffered value if there is one,
\* otherwise it parks until a value is sent.
Receive ==
    /\ start.retChan # NilChan
    /\ ~listening
    /\ received = <<>>
    /\ IF chanBuf # <<>>
       THEN /\ received' = <<Head(chanBuf)>>
            /\ chanBuf' = Tail(chanBuf)
            /\ UNCHANGED listening
       ELSE /\ listening' = TRUE
            /\ UNCHANGED <<received, chanBuf>>
    /\ UNCHANGED <<bot, config, core, start, pc, pending, call, ret, chanCap,
                   sent, log, outbox, twin, happy>>

\* A message arrives in the inbox of the shared core.
InboxArrival ==
    /\ core.inbox < MaxInbox
    /\ core' = [core EXCEPT !.inbox = @ + 1]
    /\ twin' = [twin EXCEPT !.core.inbox = @ + 1]
    /\ UNCHANGED <<bot, config, start, pc, pending, call, ret, chanCap, chanBuf,
                   listening, received, sent, log, outbox, happy>>

Next ==
    \/ UpdateTimeCall
    \/ UpdateStateCall
    \/ SendCompletes
    \/ Receive
    \/ InboxArrival

Spec == Init /\ [][Next]_vars

\* The tick with the largest time value: a driver whose ticks keep increasing
\* feeds it at some point.
LateTick ==
    \E time \in Times :
        /\ \A t \in Times : t = time \/ Gt64(time, t)
        /\ DriverCall([op |-> "UpdateTime", time |-> time, bot |-> bot])

\* A send that can proceed does proceed (the Go scheduler resumes the sender),
\* and the driver keeps feeding ticks; no task is obliged to receive from
\* retChan.
FairSpec ==
    /\ Init
    /\ [][Next]_vars
    /\ WF_vars(SendCompletes)
    /\ WF_vars(LateTick)

\* ================================================================ claims
\* the step is a call of the driver (a repeat of the same call on the same
\* receiver changes nothing and is a stuttering step)
CallStep == call' # call

\* the step in which a call returns to the driver
ReturnStep == pc' = "idle" /\ (call' # call \/ pc = "blocked")

Le64(a, b) == a = b \/ Gt64(b, a)

HasReturned == call.op # "none" /\ pc = "idle"

\* C1: over a round (from attemptingUnanimousClosing or attemptingOffchainClosing,
\* each call made on the state the previous call returned, until nil or the
\* waiting observer is returned) at most one value is sent on retChan.
C1_AtMostOneSend == Len(sent) <= 1 /\ Len(chanBuf) + Len(received) <= 1

C1_Witness ==
    /\ Len(sent) = 1
    /\ bot = NilState
    /\ pc = "idle"

\* C2: a call that returns a nil state returns an error; unless it is the
\* desync branch of attemptingUnanimousClosing or finalizingOffchainClosing,
\* exactly one value, false, has been sent on a retChan that is not nil; so in
\* attemptingOffchainClosing and waitingOffchainClosing no call returns nil
\* without false having been sent.
C2_AbnormalTerminationSendsFalse ==
    (HasReturned /\ ret.state = NilState) =>
        /\ ret.err # NoError
        /\ \/ /\ call.bot.kind \in {"attemptingUnanimousClosing",
                                    "finalizingOffchainClosing"}
              /\ ret.err = DesyncError
           \/ /\ call.bot.kind \in {"attemptingOffchainClosing",
                                    "waitingOffchainClosing"}
              /\ call.bot.retChan # NilChan => sent = <<FALSE>>

C2_Witness ==
    /\ HasReturned
    /\ ret.state = NilState
    /\ call.bot.kind = "waitingOffchainClosing"
    /\ call.op = "UpdateState"
    /\ call.ev.type = "DisputableAssertionEvent"
    /\ call.bot.retChan # NilChan
    /\ sent = <<FALSE>>

\* C3: waitingOffchainClosing with deadline D: UpdateTime(t) with t <= D
\* (t = D included) returns the same state and no outgoing message;
\* UpdateTime(t) with t > D returns finalizingOffchainClosing.
C3_StrictDeadline ==
    (HasReturned /\ call.op = "UpdateTime"
                 /\ call.bot.kind = "waitingOffchainClosing") =>
        /\ Le64(call.time, call.bot.deadline) =>
              ret.state = call.bot /\ ret.msgs = <<>> /\ bot = call.bot
        /\ Gt64(call.time, call.bot.deadline) =>
              ret.state.kind = "finalizingOffchainClosing" /\ bot = ret.state
        /\ Le64(call.time, call.bot.deadline) \/ Gt64(call.time, call.bot.deadline)

C3_Witness ==
    /\ HasReturned
    /\ call.op = "UpdateTime"
    /\ call.bot.kind = "waitingOffchainClosing"
    /\ call.time = call.bot.deadline
    /\ bot = call.bot
    /\ ret.msgs = <<>>

\* C3, the other side of the boundary: the tick D + 1 moves on
C3_WitnessPast ==
    /\ HasReturned
    /\ call.op = "UpdateTime"
    /\ call.bot.kind = "waitingOffchainClosing"
    /\ call.time = Add64(call.bot.deadline, U64(1))
    /\ ~Carry64(call.bot.deadline, U64(1))
    /\ bot.kind = "finalizingOffchainClosing"

\* C4: outgoing messages are returned by one call only, the UpdateTime that
\* moves waitingOffchainClosing to finalizingOffchainClosing; it returns
\* exactly one SendConfirmUnanimousAssertedMessage, with the assertion the
\* round was constructed with and the hash of the inbox at the call; it is the
\* only message of the round; every other call returns no message.
C4_ConfirmMessageOnce ==
    [][ReturnStep =>
          IF bot.kind = "waitingOffchainClosing"
             /\ bot'.kind = "finalizingOffchainClosing"
          THEN /\ call'.op = "UpdateTime"
               /\ ret'.msgs = <<SendConfirmUnanimousAssertedMessage(
                                   InboxHash(core), start.assertion)>>
               /\ start.kind = "attemptingOffchainClosing"
               /\ outbox = <<>>
               /\ outbox' = ret'.msgs
          ELSE /\ ret'.msgs = <<>>
               /\ outbox' = outbox]_vars

C4_Witness ==
    /\ HasReturned
    /\ call.bot.kind = "waitingOffchainClosing"
    /\ bot.kind = "finalizingOffchainClosing"
    /\ Len(outbox) = 1
    /\ outbox[1].Assertion = start.assertion
    /\ outbox[1].NewInboxHash = InboxHash([inbox |-> 1])
    /\ core.inbox = 1

\* C5: a round constructed in attemptingOffchainClosing with sequence number
\* s and assertion A, fed ProposedUnanimousAssert(s) at t0, then a tick
\* greater than t0 + GracePeriod, then ConfirmedUnanimousAssert: is in
\* waitingOffchainClosing with deadline t0 + GracePeriod after the first
\* call, in finalizingOffchainClosing with exactly one confirm message
\* carrying A after the second, and when the third returns it returned the
\* waiting observer, DeliverMessagesToVM ran exactly once and exactly one
\* value, true, was sent on the retChan the round has.
C5_HappyPath ==
    /\ happy.n = 1 =>
          /\ pc = "idle"
          /\ bot.kind = "waitingOffchainClosing"
          /\ bot.assertion = start.assertion
          /\ bot.retChan = start.retChan
          /\ ~Carry64(happy.t0, config.GracePeriod) =>
                bot.deadline = Add64(happy.t0, config.GracePeriod)
          /\ outbox = <<>> /\ sent = <<>> /\ core.delivered = 0
    /\ happy.n = 2 =>
          /\ pc = "idle"
          /\ call.bot.kind = "waitingOffchainClosing"
          /\ call.bot.deadline = Add64(happy.t0, config.GracePeriod)
          /\ bot.kind = "finalizingOffchainClosing"
          /\ Len(outbox) = 1
          /\ outbox[1].type = "SendConfirmUnanimousAssertedMessage"
          /\ outbox[1].Assertion = start.assertion
          /\ sent = <<>> /\ core.delivered = 0
    /\ (happy.n = 3 /\ pc = "idle") =>
          /\ bot = NewWaitingObserver
          /\ ret.state = NewWaitingObserver
          /\ ret.err = NoError
          /\ Len(outbox) = 1
          /\ outbox[1].type = "SendConfirmUnanimousAssertedMessage"
          /\ outbox[1].Assertion = start.assertion
          /\ core.delivered = 1
          /\ sent = (IF start.retChan # NilChan THEN <<TRUE>> ELSE <<>>)

C5_Witness ==
    /\ happy.n = 3
    /\ pc = "idle"
    /\ bot = NewWaitingObserver
    /\ start.retChan # NilChan
    /\ sent = <<TRUE>>
    /\ core.delivered = 1
    /\ config.GracePeriod = U64(1)

\* C6: attemptingUnanimousClosing fed FinalUnanimousAssert returns the
\* waiting observer, no error and no outgoing message; true has been sent on
\* a retChan that is not nil and DeliverMessagesToVM has run exactly once.
C6_ImmediateFinal ==
    (HasReturned /\ call.op = "UpdateState"
                 /\ call.bot.kind = "attemptingUnanimousClosing"
                 /\ call.ev.type = "FinalUnanimousAssertEvent") =>
        /\ ret = [state |-> NewWaitingObserver, challenge |-> "nil",
                  msgs |-> <<>>, err |-> NoError]
        /\ bot = NewWaitingObserver
        /\ outbox = <<>>
        /\ core.delivered = 1
        /\ sent = (IF call.bot.retChan # NilChan THEN <<TRUE>> ELSE <<>>)

C6_Witness ==
    /\ HasReturned
    /\ call.op = "UpdateState"
    /\ call.bot.kind = "attemptingUnanimousClosing"
    /\ call.ev.type = "FinalUnanimousAssertEvent"
    /\ call.bot.retChan # NilChan
    /\ sent = <<TRUE>>
    /\ core.delivered = 1
    /\ bot = NewWaitingObserver

\* C7: attemptingOffchainClosing with sequence number s, fed
\* ProposedUnanimousAssert with a sequence number below s: the call returns
\* the state it was made on, no error and no message, and sends nothing on
\* retChan and does not call DeliverMessagesToVM.
C7_StaleIgnore ==
    [][(CallStep /\ call'.op = "UpdateState"
                 /\ bot.kind = "attemptingOffchainClosing"
                 /\ call'.ev.type = "ProposedUnanimousAssertEvent"
                 /\ call'.ev.SequenceNum < bot.sequenceNum) =>
          /\ pc' = "idle"
          /\ ret' = [state |-> bot, challenge |-> "nil", msgs |-> <<>>,
                     err |-> NoError]
          /\ bot' = bot
          /\ UNCHANGED <<sent, chanBuf, received, core, log, outbox>>]_vars

C7_Witness ==
    /\ HasReturned
    /\ call.op = "UpdateState"
    /\ call.bot.kind = "attemptingOffchainClosing"
    /\ call.ev.type = "ProposedUnanimousAssertEvent"
    /\ call.ev.SequenceNum < call.bot.sequenceNum
    /\ bot = call.bot
    /\ bot.retChan # NilChan
    /\ sent = <<>>

\* C8: attemptingOffchainClosing with sequence number s, fed
\* ProposedUnanimousAssert with a sequence number above s: the call sends
\* false on a retChan that is not nil and returns a nil state, an error and
\* no message.
C8_SupersedeAbort ==
    (HasReturned /\ call.op = "UpdateState"
                 /\ call.bot.kind = "attemptingOffchainClosing"
                 /\ call.ev.type = "ProposedUnanimousAssertEvent"
                 /\ call.ev.SequenceNum > call.bot.sequenceNum) =>
        /\ ret.state = NilState
        /\ bot = NilState
        /\ ret.err # NoError
        /\ ret.msgs = <<>>
        /\ sent = (IF call.bot.retChan # NilChan THEN <<FALSE>> ELSE <<>>)

C8_Witness ==
    /\ HasReturned
    /\ call.op = "UpdateState"
    /\ call.bot.kind = "attemptingOffchainClosing"
    /\ call.ev.type = "ProposedUnanimousAssertEvent"
    /\ call.ev.SequenceNum > call.bot.sequenceNum
    /\ call.bot.retChan # NilChan
    /\ sent = <<FALSE>>
    /\ ret.state = NilState
    /\ ret.err = SupersededError

\* C9: an UpdateTime call whose time is not above the time of the UpdateTime
\* call just before it, or is not above the deadline of the
\* waitingOffchainClosing state it is made on, returns the state it was made
\* on, no message and no error, sends nothing and delivers nothing.
C9_IdempotentTicks ==
    [][(CallStep /\ call'.op = "UpdateTime"
                 /\ \/ call.op = "UpdateTime" /\ Le64(call'.time, call.time)
                    \/ /\ bot.kind = "waitingOffchainClosing"
                       /\ Le64(call'.time, bot.deadline)) =>
          /\ pc' = "idle"
          /\ ret' = [state |-> bot, challenge |-> "nil", msgs |-> <<>>,
                     err |-> NoError]
          /\ bot' = bot
          /\ UNCHANGED <<sent, chanBuf, received, core, log, outbox>>]_vars

\* a tick of time 0 in finalizingOffchainClosing follows a tick (the one past
\* the deadline, or a later one) whose time is not below it
C9_Witness ==
    /\ HasReturned
    /\ call.op = "UpdateTime"
    /\ call.bot.kind = "finalizingOffchainClosing"
    /\ call.time = U64(0)
    /\ bot = call.bot

\* C9, a tick at the deadline in waitingOffchainClosing
C9_WitnessSubDeadline ==
    /\ HasReturned
    /\ call.op = "UpdateTime"
    /\ call.bot.kind = "waitingOffchainClosing"
    /\ Le64(call.time, call.bot.deadline)
    /\ bot = call.bot

\* C10: the round run with a nil retChan on the same ticks and events: each
\* call that has returned returned the same state but for retChan, the same
\* messages and the same error as the twin's, and DeliverMessagesToVM has run
\* as often.
C10_HandoffOptional ==
    HasReturned =>
        /\ WithNilChan(ret.state) = twin.ret.state
        /\ WithNilChan(bot) = twin.bot
        /\ ret.msgs = twin.ret.msgs
        /\ ret.err = twin.ret.err
        /\ ret.challenge = twin.ret.challenge
        /\ core.delivered = twin.core.delivered

C10_Witness ==
    /\ HasReturned
    /\ start.retChan # NilChan
    /\ bot = NewWaitingObserver
    /\ twin.bot = NewWaitingObserver
    /\ sent = <<TRUE>>
    /\ core.delivered = 1
    /\ twin.core.delivered = 1
    /\ start.kind = "attemptingOffchainClosing"

\* C11 (as claimed): every call that stops in a send on retChan goes on to its
\* return, also when no task ever receives from retChan.
C11_SendNeverBlocksForever == (pc = "blocked") ~> (pc = "idle")

\* C11 (amended): a call stops in its send only when retChan has no buffer and
\* no task has received from it; with a buffer of at least one value every
\* call returns in one piece. A call that was stopped returns what the
\* same call returns with a nil retChan.
C11_BlocksOnlyUnbuffered ==
    /\ pc = "blocked" =>
          /\ chanCap = 0
          /\ received = <<>> /\ sent = <<>>
          /\ call.op = "UpdateState"
          /\ Head(pending.rest).op = "send"
          /\ bot = call.bot
    /\ (HasReturned /\ sent # <<>>) =>
          /\ WithNilChan(ret.state) = twin.ret.state
          /\ ret.err = twin.ret.err

C11_Witness ==
    /\ HasReturned
    /\ chanCap = 1
    /\ ~listening
    /\ received = <<>>
    /\ chanBuf = <<FALSE>>
    /\ call.bot.kind = "waitingOffchainClosing"
    /\ bot = NilState

\* C11, the case the amendment leaves out: a call stopped in its send
C11_WitnessBlocked ==
    /\ pc = "blocked"
    /\ chanCap = 0
    /\ call.bot.kind = "waitingOffchainClosing"

\* C12: the waiting observer is returned only for FinalUnanimousAssert in
\* attemptingUnanimousClosing and for ConfirmedUnanimousAssert in
\* finalizingOffchainClosing; every call returns a closing state, the waiting
\* observer or nil, and it returns nil exactly when it returns an error.
C12_TerminalExits ==
    HasReturned =>
        /\ ret.state = NilState <=> ret.err # NoError
        /\ ret.state.kind \in ClosingKinds \cup {"waitingObserver", "nil"}
        /\ ret.state = NewWaitingObserver =>
              /\ call.op = "UpdateState"
              /\ \/ /\ call.bot.kind = "attemptingUnanimousClosing"
                    /\ call.ev.type = "FinalUnanimousAssertEvent"
                 \/ /\ call.bot.kind = "finalizingOffchainClosing"
                    /\ call.ev.type = "ConfirmedUnanimousAssertEvent"
        /\ bot = ret.state

C12_Witness ==
    /\ HasReturned
    /\ call.bot.kind = "finalizingOffchainClosing"
    /\ call.op = "UpdateState"
    /\ call.ev.type = "FinalUnanimousAssertEvent"
    /\ ret.state = NilState
    /\ ret.err = DesyncError

\* C13: in attemptingUnanimousClosing an event other than
\* ProposedUnanimousAssert, DisputableAssertion and FinalUnanimousAssert, and
\* in finalizingOffchainClosing an event other than ConfirmedUnanimousAssert,
\* returns nil and the desync error, without a send on retChan, a call of
\* DeliverMessagesToVM or an outgoing message.
C13_SilentDesync ==
    [][(CallStep /\ call'.op = "UpdateState"
          /\ \/ /\ bot.kind = "attemptingUnanimousClosing"
                /\ call'.ev.type \notin {"ProposedUnanimousAssertEvent",
                                         "DisputableAssertionEvent",
                                         "FinalUnanimousAssertEvent"}
             \/ /\ bot.kind = "finalizingOffchainClosing"
                /\ call'.ev.type # "ConfirmedUnanimousAssertEvent") =>
          /\ pc' = "idle"
          /\ ret' = [state |-> NilState, challenge |-> "nil", msgs |-> <<>>,
                     err |-> DesyncError]
          /\ bot' = NilState
          /\ UNCHANGED <<sent, chanBuf, received, core, log, outbox>>]_vars

C13_Witness ==
    /\ HasReturned
    /\ call.op = "UpdateState"
    /\ call.bot.kind = "finalizingOffchainClosing"
    /\ call.ev.type = "DisputableAssertionEvent"
    /\ call.bot.retChan # NilChan
    /\ bot = NilState
    /\ ret.err = DesyncError
    /\ sent = <<>>
    /\ core.delivered = 0

\* C14: attemptingOffchainClosing (sequence number s, assertion A, retChan h)
\* fed at time t ProposedUnanimousAssert with sequence number s returns
\* waitingOffchainClosing with deadline t + GracePeriod (the uint64 sum), A and
\* h, no error and no message, and sends nothing; while the round stays in
\* waitingOffchainClosing no call changes the deadline.
C14_EnterWaiting ==
    [][/\ (CallStep /\ call'.op = "UpdateState"
              /\ bot.kind = "attemptingOffchainClosing"
              /\ call'.ev.type = "ProposedUnanimousAssertEvent"
              /\ call'.ev.SequenceNum = bot.sequenceNum) =>
             /\ pc' = "idle"
             /\ bot' = [kind |-> "waitingOffchainClosing",
                        assertion |-> bot.assertion,
                        deadline |-> Add64(call'.time, config.GracePeriod),
                        retChan |-> bot.retChan]
             /\ ret' = [state |-> bot', challenge |-> "nil", msgs |-> <<>>,
                        err |-> NoError]
             /\ UNCHANGED <<sent, chanBuf, received, core, log, outbox>>
       /\ (bot.kind = "waitingOffchainClosing"
              /\ bot'.kind = "waitingOffchainClosing") =>
             bot'.deadline = bot.deadline]_vars

C14_Witness ==
    /\ HasReturned
    /\ call.op = "UpdateTime"
    /\ call.bot.kind = "waitingOffchainClosing"
    /\ bot.kind = "waitingOffchainClosing"
    /\ bot.deadline = U64(2)
    /\ config.GracePeriod = U64(1)
    /\ bot.deadline = call.bot.deadline
    /\ bot.assertion = start.assertion
    /\ bot.retChan = start.retChan

\* C15: in waitingOffchainClosing every event (ProposedUnanimousAssert with any
\* sequence number, FinalUnanimousAssert, DisputableAssertion,
\* ConfirmedUnanimousAssert, any other) sends false on a retChan that is not
\* nil and returns nil with an error; DisputableAssertion in
\* attemptingUnanimousClosing and attemptingOffchainClosing returns the state
\* unchanged; waitingOffchainClosing is left for finalizingOffchainClosing
\* only by a tick past the deadline.
C15_WaitingToleratesNoEvent ==
    [][/\ (ReturnStep /\ call'.op = "UpdateState"
              /\ call'.bot.kind = "waitingOffchainClosing") =>
             /\ bot' = NilState
             /\ ret'.state = NilState
             /\ ret'.err # NoError
             /\ sent' = (IF call'.bot.retChan # NilChan THEN <<FALSE>> ELSE <<>>)
       /\ (CallStep /\ call'.op = "UpdateState"
              /\ call'.ev.type = "DisputableAssertionEvent"
              /\ bot.kind \in {"attemptingUnanimousClosing",
                               "attemptingOffchainClosing"}) =>
             /\ pc' = "idle"
             /\ bot' = bot
             /\ ret'.state = bot
             /\ ret'.err = NoError
       /\ (bot.kind = "waitingOffchainClosing"
              /\ bot'.kind = "finalizingOffchainClosing") =>
             /\ call'.op = "UpdateTime"
             /\ Gt64(call'.time, bot.deadline)]_vars

C15_Witness ==
    /\ HasReturned
    /\ call.op = "UpdateState"
    /\ call.bot.kind = "waitingOffchainClosing"
    /\ call.ev.type = "ConfirmedUnanimousAssertEvent"
    /\ call.bot.retChan # NilChan
    /\ bot = NilState
    /\ ret.err = DesyncError
    /\ sent = <<FALSE>>

\* C16: on ConfirmedUnanimousAssert in finalizingOffchainClosing
\* DeliverMessagesToVM runs before true is sent, so whenever true has been
\* sent there the delivery has happened; on FinalUnanimousAssert in
\* attemptingUnanimousClosing true is sent before DeliverMessagesToVM runs.
C16_OrderOfSuccessEffects ==
    /\ start.kind = "attemptingOffchainClosing" =>
          /\ TRUE \in {sent[i] : i \in 1..Len(sent)} =>
                /\ log = <<[op |-> "deliver"], [op |-> "send", val |-> TRUE]>>
                /\ core.delivered = 1
          /\ (pc = "blocked" /\ call.bot.kind = "finalizingOffchainClosing") =>
                /\ log = <<[op |-> "deliver"]>>
                /\ core.delivered = 1
    /\ start.kind = "attemptingUnanimousClosing" =>
          /\ core.delivered = 1 =>
                log = SendIfPresent(start.retChan, TRUE) \o <<[op |-> "deliver"]>>
          /\ pc = "blocked" =>
                /\ log = <<>>
                /\ core.delivered = 0

C16_Witness ==
    /\ start.kind = "attemptingOffchainClosing"
    /\ received = <<TRUE>>
    /\ log = <<[op |-> "deliver"], [op |-> "send", val |-> TRUE]>>
    /\ bot = NewWaitingObserver

\* C16, the other order: attemptingUnanimousClosing
C16_WitnessUnanimous ==
    /\ start.kind = "attemptingUnanimousClosing"
    /\ log = <<[op |-> "send", val |-> TRUE], [op |-> "deliver"]>>
    /\ bot = NewWaitingObserver

\* C17 (as claimed): the stored deadline is never below the time t0 at which
\* waitingOffchainClosing was entered, and the round enters
\* finalizingOffchainClosing only at a tick above t0 + GracePeriod taken
\* without wrap-around.
C17_GracePeriodHonoured ==
    [][/\ (CallStep /\ bot.kind = "attemptingOffchainClosing"
              /\ bot'.kind = "waitingOffchainClosing") =>
             Le64(call'.time, bot'.deadline)
       /\ (happy.n = 1 /\ bot'.kind = "finalizingOffchainClosing") =>
             /\ ~Carry64(happy.t0, config.GracePeriod)
             /\ Gt64(call'.time, Add64(happy.t0, config.GracePeriod))]_vars

\* C18: a call returns the state it was made on, the next state of its chain
\* (attemptingOffchainClosing, waitingOffchainClosing,
\* finalizingOffchainClosing, waiting observer; or attemptingUnanimousClosing,
\* waiting observer) or nil: never an earlier state, never a state further on,
\* never a state of the other chain.
Successors(kind) ==
    CASE kind = "attemptingUnanimousClosing" ->
            {"attemptingUnanimousClosing", "waitingObserver", "nil"}
      [] kind = "attemptingOffchainClosing" ->
            {"attemptingOffchainClosing", "waitingOffchainClosing", "nil"}
      [] kind = "waitingOffchainClosing" ->
            {"waitingOffchainClosing", "finalizingOffchainClosing", "nil"}
      [] kind = "finalizingOffchainClosing" ->
            {"finalizingOffchainClosing", "waitingObserver", "nil"}
      [] OTHER -> {kind}

C18_ForwardOnly ==
    [][/\ bot'.kind \in Successors(bot.kind)
       /\ ReturnStep => ret'.state.kind \in Successors(call'.bot.kind)]_vars

C18_Witness ==
    /\ start.kind = "attemptingOffchainClosing"
    /\ bot = NewWaitingObserver
    /\ call.bot.kind = "finalizingOffchainClosing"
    /\ happy.n = 3

\* C19: DeliverMessagesToVM runs at most once in a round, and in the calls
\* that return the waiting observer only: a call that has returned nil or a
\* closing state leaves it not run, one that has returned the waiting observer
\* has run it once; true has been sent only when it has run.
C19_DeliverOnceOnSuccess ==
    /\ core.delivered <= 1
    /\ twin.core.delivered <= 1
    /\ HasReturned =>
          core.delivered = (IF ret.state = NewWaitingObserver THEN 1 ELSE 0)
    /\ core.delivered = 1 =>
          /\ call.op = "UpdateState"
          /\ IF pc = "blocked"
             THEN pending.r.state = NewWaitingObserver
             ELSE ret.state = NewWaitingObserver
    /\ (\E i \in 1..Len(sent) : sent[i] = TRUE) => core.delivered = 1

C19_Witness ==
    /\ HasReturned
    /\ ret.state = NewWaitingObserver
    /\ core.delivered = 1
    /\ sent = <<TRUE>>
    /\ call.bot.kind = "attemptingUnanimousClosing"

\* C20 (as claimed): with a driver that keeps feeding increasing ticks, a
\* round in waitingOffchainClosing leaves it: for finalizingOffchainClosing,
\* or for nil because an event arrived.
C20_WaitingEnds ==
    (bot.kind = "waitingOffchainClosing") ~> (bot.kind # "waitingOffchainClosing")

\* C20 (amended): a round in waitingOffchainClosing whose deadline is below
\* the largest uint64 leaves it for finalizingOffchainClosing, or an event
\* arrives: its call returns nil, once its send of false has gone through.
C20_WaitingEndsBelowMax ==
    (bot.kind = "waitingOffchainClosing" /\ bot.deadline # U64Top(0))
        ~> \/ bot.kind \in {"finalizingOffchainClosing", "nil"}
           \/ pc = "blocked" /\ call.op = "UpdateState"
                             /\ pending.r.state = NilState

C20_Witness ==
    /\ HasReturned
    /\ call.op = "UpdateTime"
    /\ call.bot.kind = "waitingOffchainClosing"
    /\ call.time = U64Top(0)
    /\ bot.kind = "finalizingOffchainClosing"
    /\ Len(outbox) = 1

\* C20, the case the amendment leaves out: the deadline no tick is above
C20_WitnessMax ==
    /\ bot.kind = "waitingOffchainClosing"
    /\ bot.deadline = U64Top(0)
    /\ call.op = "UpdateTime"
    /\ call.time = U64Top(0)

====
